---- MODULE Spec2Model ----
(***************************************************************************)
(* Model of the utility layer of the py-automation-testing suite.         *)
(*                                                                         *)
(*   - LocatorStrategy.find_element   (src/utils/locator_helpers.py)       *)
(*   - wait_for_condition             (src/utils/wait_helpers.py)          *)
(*   - retry_on_failure               (src/utils/wait_helpers.py)          *)
(*   - DatabaseHelper                 (src/utils/db_helper.py)             *)
(*   - scenario hooks                 (src/features/environment.py,        *)
(*                                     src/conftest.py)                    *)
(*   - Overview page checks           (src/pages/it_assert_inventory,      *)
(*                                     src/features/steps)                 *)
(*                                                                         *)
(* Each component has its own specification (SpecLocator, SpecWait, ...)   *)
(* over the module's variables; the variables of the other components     *)
(* stay at their idle values.  Time is counted in integer ticks.          *)
(***************************************************************************)
EXTENDS Integers, Sequences, FiniteSets, TLC

(* ---- bounds of the model ---- *)
MaxFallbacks == 2
MaxTimeout == 2
MaxWaitTimeout == 3
MaxPoll == 2
MaxCondDur == 2
MaxAttempts == 3
MaxDelay == 2
MaxCalls == 2
MaxRows == 2
MaxScenarios == 2
MaxTextLen == 2
MaxMetrics == 2
MaxCount == 2
MaxCredCalls == 2
MaxMutations == 1

VARIABLES
    \* LocatorStrategy and one call of find_element
    primary,        \* self.primary
    fallbacks,      \* self.fallbacks
    fe_timeout,     \* find_element's timeout argument
    fe_state,       \* find_element's state argument
    fe_pc,          \* position in find_element: "primary", "fallback", "done"
    fe_idx,         \* index of the fallback the for loop is at
    waits,          \* the page.wait_for_selector calls made, in order
    located,        \* the page.locator calls made, in order
    fe_result,      \* what find_element gave its caller
    \* one call of wait_for_condition
    wc_timeout,     \* timeout
    poll_interval,  \* poll_interval
    error_message,  \* error_message
    start_time,     \* start_time
    now,            \* the clock time.time() reads
    wc_pc,          \* position: "test", "condition", "sleep", "done"
    polls,          \* the outcome of every condition() call, in order
    sleeps,         \* number of time.sleep(poll_interval) calls
    cond_time,      \* time spent inside condition() calls
    wc_result,      \* what wait_for_condition gave its caller
    \* one call of retry_on_failure
    max_attempts,   \* max_attempts
    delay,          \* delay
    exceptions,     \* exceptions: the error kinds that are retried
    rf_pc,          \* position: "enter", "attempt", "delay", "done"
    attempt,        \* the for loop's attempt
    calls,          \* the outcome of every func() call, in order
    delays,         \* number of time.sleep(delay) calls
    last_exception, \* last_exception: 0 for None, k for the k-th call's error
    rf_result,      \* what retry_on_failure gave its caller
    \* a DatabaseHelper and the calls made on it, one at a time
    db_pc,          \* position: "idle", "connect", "body", "commit", "rollback", "close"
    db_method,      \* the method being run
    db_fetch,       \* execute_query's fetch argument
    db_rows,        \* the rows the query of this call matches, in order
    db_calls,       \* number of calls made so far
    conns,          \* every connection psycopg2.connect returned, in order
    db_events,      \* what this call did to the driver, in order
    db_error,       \* the exception on its way out of the call, "" for none
    db_value,       \* the value the with-body returned
    db_result,      \* what the last call gave its caller
    \* the scenarios a runner executes, one at a time
    runner,         \* "behave" (environment.py) or "pytest" (conftest.py)
    TRACE,          \* config.settings.TRACE
    SCREENSHOT_ON_FAILURE,  \* config.settings.SCREENSHOT_ON_FAILURE
    ALLURE_AVAILABLE,       \* whether import allure succeeded
    rep_call,       \* whether request.node has the attribute rep_call
    pytest_html,    \* whether the pytest_html plugin is registered
    sc_pc,          \* the hook or phase that runs next
    scenarios,      \* number of scenarios started
    contexts,       \* every browser context created, in order
    status,         \* the scenario's outcome: "none", "passed", "failed"
    sc_log,         \* what the hooks of this scenario logged or produced
    escaped,        \* the exceptions that left a hook of this scenario
    \* the checks made on the Overview page, one at a time
    ov_op,          \* the check that ran last
    metrics,        \* the metric value elements locator(...).all() returns
    wait_ok,        \* whether wait_for_element_state returned
    all_ok,         \* whether locator(...).all() returned
    ov_verdict,     \* what verify_all_metric_values_numeric returned
    ui_count,       \* what count_total_devices_count_displayed() gave
    db_outcome,     \* what fetch_one(COUNT_TOTAL_DEVICES) gave
    step_result,    \* the outcome of the step that ran
    ov_page,        \* the page the displayed check looked at
    displayed,      \* what is_overview_page_displayed returned
    \* the construction of a DatabaseHelper
    PSYCOPG2_AVAILABLE,     \* whether import psycopg2 succeeded
    absent,         \* required parameters given neither by argument nor env
    db_config,      \* self.host, self.database, self.username, self.password
    db_port,        \* self.port
    init_error,     \* the exception __init__ raised, "" for none
    \* the credential dicts of config.settings and config.api_config
    keycloak,       \* the KEYCLOAK_* settings
    heap,           \* every credentials dict that exists, by identity
    refs,           \* the dicts handed out: variant, object, origin
    touched,        \* the objects a caller has changed
    cred_calls,     \* number of calls of the credentials functions
    cred_error,     \* the exception of the last call, "" for none
    \* a LoginPage and the call made on it
    lg_pc,          \* position: "ready", "flow", "countdown", "done"
    lg_op,          \* the method or step that was called
    lg_field,       \* the field an enter_* call fills
    stay_signed_in, \* complete_full_login's stay_signed_in
    flow_idx,       \* the call complete_full_login is at
    remaining,      \* iterations left in manual_enter_mfa_code's loop
    lg_sleeps,      \* number of time.sleep(1) calls
    lg_log,         \* what the call did, in order
    lg_result       \* what the call gave its caller

locatorVars == <<primary, fallbacks, fe_timeout, fe_state, fe_pc, fe_idx,
                 waits, located, fe_result>>
waitVars == <<wc_timeout, poll_interval, error_message, start_time, now,
              wc_pc, polls, sleeps, cond_time, wc_result>>
retryVars == <<max_attempts, delay, exceptions, rf_pc, attempt, calls, delays,
               last_exception, rf_result>>
dbVars == <<db_pc, db_method, db_fetch, db_rows, db_calls, conns, db_events,
            db_error, db_value, db_result>>
scenarioVars == <<runner, TRACE, SCREENSHOT_ON_FAILURE, ALLURE_AVAILABLE,
                  rep_call, pytest_html, sc_pc, scenarios, contexts, status,
                  sc_log, escaped>>
overviewVars == <<ov_op, metrics, wait_ok, all_ok, ov_verdict, ui_count,
                  db_outcome, step_result, ov_page, displayed>>
configVars == <<PSYCOPG2_AVAILABLE, absent, db_config, db_port, init_error>>
credentialsVars == <<keycloak, heap, refs, touched, cred_calls, cred_error>>
loginVars == <<lg_pc, lg_op, lg_field, stay_signed_in, flow_idx, remaining,
               lg_sleeps, lg_log, lg_result>>
vars == <<locatorVars, waitVars, retryVars, dbVars, scenarioVars,
          overviewVars, configVars, credentialsVars, loginVars>>
nonLocatorVars ==
    <<waitVars, retryVars, dbVars, scenarioVars, overviewVars,
      configVars, credentialsVars, loginVars>>
nonWaitVars ==
    <<locatorVars, retryVars, dbVars, scenarioVars, overviewVars,
      configVars, credentialsVars, loginVars>>
nonRetryVars ==
    <<locatorVars, waitVars, dbVars, scenarioVars, overviewVars,
      configVars, credentialsVars, loginVars>>
nonDbVars ==
    <<locatorVars, waitVars, retryVars, scenarioVars, overviewVars,
      configVars, credentialsVars, loginVars>>
nonScenarioVars ==
    <<locatorVars, waitVars, retryVars, dbVars, overviewVars,
      configVars, credentialsVars, loginVars>>
nonCredentialsVars ==
    <<locatorVars, waitVars, retryVars, dbVars, scenarioVars, overviewVars,
      configVars, loginVars>>
nonLoginVars ==
    <<locatorVars, waitVars, retryVars, dbVars, scenarioVars, overviewVars,
      configVars, credentialsVars>>
nonOverviewVars ==
    <<locatorVars, waitVars, retryVars, dbVars, scenarioVars,
      configVars, credentialsVars, loginVars>>

(* ---- small helpers ---- *)
SeqsUpTo(S, n) == UNION {[1..k -> S] : k \in 0..n}

RECURSIVE SumDur(_)
SumDur(s) == IF s = <<>> THEN 0 ELSE s[1].dur + SumDur(Tail(s))

(***************************************************************************)
(* LocatorStrategy                                                         *)
(***************************************************************************)
Selectors == {"#a", "#b"}
ElementStates == {"visible", "attached"}
\* What page.wait_for_selector can do: return, raise PlaywrightTimeoutError,
\* or raise another playwright Error (malformed selector, closed page, ...).
EngineOutcomes == {"ok", "timeout", "error"}

\* The fallbacks argument of __init__: None (the default) or a list.
FallbackArgs ==
    {[none |-> TRUE, list |-> <<>>]}
        \cup {[none |-> FALSE, list |-> l] : l \in SeqsUpTo(Selectors, MaxFallbacks)}

\* self.fallbacks = fallbacks or []
InitFallbacks(arg) == IF arg.none \/ arg.list = <<>> THEN <<>> ELSE arg.list

Pending == [kind |-> "pending", selector |-> ""]
Handle(sel) == [kind |-> "handle", selector |-> sel]
NoneResult == [kind |-> "None", selector |-> ""]
Raised == [kind |-> "raised", selector |-> ""]

LocatorIdle ==
    /\ primary = "" /\ fallbacks = <<>> /\ fe_timeout = 0 /\ fe_state = ""
    /\ fe_pc = "idle" /\ fe_idx = 0 /\ waits = <<>> /\ located = <<>>
    /\ fe_result = Pending

\* A strategy has been constructed and find_element(page, timeout, state) entered.
LocatorInit ==
    /\ primary \in Selectors
    /\ \E arg \in FallbackArgs : fallbacks = InitFallbacks(arg)
    /\ fe_timeout \in 1..MaxTimeout
    /\ fe_state \in ElementStates
    /\ fe_pc = "primary" /\ fe_idx = 0
    /\ waits = <<>> /\ located = <<>>
    /\ fe_result = Pending

\* Candidate i of a strategy: 0 is the primary, k >= 1 is fallbacks[k].
Candidate(i) == IF i = 0 THEN primary ELSE fallbacks[i]

\* A plausible slip: a candidate that timed out is tried a second time.
AfterTimeoutRetry(i) ==
    IF \A k \in 1..Len(waits) : waits[k].pos # i
        THEN fe_pc' = fe_pc /\ fe_idx' = fe_idx /\ fe_result' = fe_result
        ELSE IF i < Len(fallbacks)
            THEN fe_pc' = "fallback" /\ fe_idx' = i + 1 /\ fe_result' = fe_result
            ELSE fe_pc' = "done" /\ fe_idx' = fe_idx /\ fe_result' = NoneResult

\* A plausible slip: the last timeout is re-raised instead of returning None.
AfterTimeoutRaise(i) ==
    IF i < Len(fallbacks)
        THEN fe_pc' = "fallback" /\ fe_idx' = i + 1 /\ fe_result' = fe_result
        ELSE fe_pc' = "done" /\ fe_idx' = fe_idx /\ fe_result' = Raised

\* Leaving the except clause of candidate i: the for loop goes to the next
\* fallback, or falls through to `return None`.
AfterTimeout(i) ==
    IF i < Len(fallbacks)
        THEN fe_pc' = "fallback" /\ fe_idx' = i + 1 /\ fe_result' = fe_result
        ELSE fe_pc' = "done" /\ fe_idx' = fe_idx /\ fe_result' = NoneResult

\* A plausible slip: the handle is built but not returned, the search goes on.
AfterFoundNoReturn(i, sel) ==
    /\ located' = Append(located, sel)
    /\ IF i < Len(fallbacks)
        THEN fe_pc' = "fallback" /\ fe_idx' = i + 1 /\ fe_result' = Handle(sel)
        ELSE fe_pc' = "done" /\ fe_idx' = fe_idx /\ fe_result' = Handle(sel)

\* wait_for_selector returned for candidate i: return page.locator(sel).
\* page.locator only builds a lazy handle; it makes no engine query.
AfterFound(i, sel) ==
    /\ located' = Append(located, sel)
    /\ fe_result' = Handle(sel)
    /\ fe_pc' = "done" /\ fe_idx' = fe_idx

\* A plausible slip: `except Exception`, every engine error taken as a miss.
AfterErrorSwallowed(i) ==
    /\ located' = located
    /\ IF i < Len(fallbacks)
        THEN fe_pc' = "fallback" /\ fe_idx' = i + 1 /\ fe_result' = fe_result
        ELSE fe_pc' = "done" /\ fe_idx' = fe_idx /\ fe_result' = NoneResult

\* An engine error other than PlaywrightTimeoutError is not caught by
\* `except PlaywrightTimeoutError`: it leaves find_element.
AfterError(i) ==
    /\ located' = located
    /\ fe_result' = Raised
    /\ fe_pc' = "done" /\ fe_idx' = fe_idx

\* try: page.wait_for_selector(sel, state=state, timeout=timeout) ... except
\* A wait that times out lasts the whole timeout; any other lasts at most that.
TryCandidate(i, sel) ==
    \E o \in EngineOutcomes, d \in 0..fe_timeout :
        /\ o = "timeout" => d = fe_timeout
        /\ waits' = Append(waits, [pos |-> i, selector |-> sel, state |-> fe_state,
                                   timeout |-> fe_timeout, outcome |-> o, dur |-> d])
        /\ CASE o = "ok" -> AfterFound(i, sel)
             [] o = "timeout" -> located' = located /\ AfterTimeout(i)
             [] o = "error" -> AfterError(i)

FindPrimary ==
    /\ fe_pc = "primary"
    /\ TryCandidate(0, primary)
    /\ UNCHANGED <<primary, fallbacks, fe_timeout, fe_state>>
    /\ UNCHANGED nonLocatorVars

\* A plausible slip: the fallback list is walked from its end.
FindFallbackReversed ==
    /\ fe_pc = "fallback"
    /\ TryCandidate(fe_idx, fallbacks[Len(fallbacks) + 1 - fe_idx])
    /\ UNCHANGED <<primary, fallbacks, fe_timeout, fe_state>>
    /\ UNCHANGED nonLocatorVars

\* for fallback in self.fallbacks: try ... except
FindFallback ==
    /\ fe_pc = "fallback"
    /\ TryCandidate(fe_idx, fallbacks[fe_idx])
    /\ UNCHANGED <<primary, fallbacks, fe_timeout, fe_state>>
    /\ UNCHANGED nonLocatorVars

(* ---- what the log of one call says ---- *)
LastWait == waits[Len(waits)]
WaitsOn(sel) == {k \in 1..Len(waits) : waits[k].selector = sel}
WaitsAt(i) == {k \in 1..Len(waits) : waits[k].pos = i}
Occurrences(sel) ==
    (IF primary = sel THEN 1 ELSE 0)
        + Cardinality({k \in 1..Len(fallbacks) : fallbacks[k] = sel})
AllTimedOut == \A k \in 1..Len(waits) : waits[k].outcome = "timeout"
TotalWait == SumDur(waits)

\* C1: when the wait on the primary selector succeeds, the call returns a
\* handle bound to the primary selector, and no fallback is waited on or
\* located in that call.
C1_PrimaryFoundNoFallback ==
    (waits # <<>> /\ waits[1].outcome = "ok") =>
        /\ fe_pc = "done"
        /\ fe_result = Handle(primary)
        /\ Len(waits) = 1 /\ waits[1].pos = 0 /\ waits[1].selector = primary
        /\ located = <<primary>>

C1_Witness ==
    /\ waits # <<>> /\ waits[1].outcome = "ok"
    /\ fallbacks # <<>> /\ fe_pc = "done"

\* C2: when the primary times out, the fallbacks are waited on in list order,
\* one after the other, each with the call's timeout and state; the handle
\* returned is bound to the first fallback whose wait succeeds and no later
\* fallback is queried.
C2_FallbacksInOrder ==
    /\ \A k \in 1..Len(waits) :
        /\ k - 1 <= Len(fallbacks)
        /\ waits[k].pos = k - 1
        /\ waits[k].selector = Candidate(k - 1)
        /\ waits[k].timeout = fe_timeout
        /\ waits[k].state = fe_state
        /\ k < Len(waits) => waits[k].outcome = "timeout"
    /\ fe_result.kind = "handle" =>
        /\ fe_pc = "done"
        /\ LastWait.outcome = "ok"
        /\ fe_result = Handle(Candidate(Len(waits) - 1))
        /\ located = <<Candidate(Len(waits) - 1)>>
    /\ (waits # <<>> /\ LastWait.outcome = "ok") => fe_result.kind = "handle"

C2_Witness ==
    /\ fe_result.kind = "handle"
    /\ Len(waits) = 3
    /\ fallbacks[1] # fallbacks[2]
    /\ fe_result.selector = fallbacks[2]

\* C3: when the primary and every fallback time out, the call returns None
\* and does not raise, for every fallback list, the empty one included.
C3_AllTimedOutReturnsNone ==
    /\ (AllTimedOut /\ Len(waits) = 1 + Len(fallbacks)) =>
            fe_pc = "done" /\ fe_result = NoneResult /\ located = <<>>
    /\ fe_result = NoneResult =>
            AllTimedOut /\ Len(waits) = 1 + Len(fallbacks)

C3_Witness ==
    /\ fe_result = NoneResult /\ fe_pc = "done"
    /\ Len(fallbacks) >= 1 /\ Len(waits) = 1 + Len(fallbacks)

C3_WitnessEmpty ==
    fe_result = NoneResult /\ fallbacks = <<>> /\ Len(waits) = 1

\* C4 as claimed: whatever error the engine produces, find_element never
\* raises.
C4_NeverRaises == fe_result.kind # "raised"

\* C4 (amended): a timeout never leaves find_element, and the call raises
\* exactly when a wait raised an engine error that is not a timeout; in every
\* other case the caller gets a handle or None.
C4_RaisesOnlyNonTimeout ==
    /\ fe_result.kind = "raised" <=> (waits # <<>> /\ LastWait.outcome = "error")
    /\ fe_pc = "done" => fe_result.kind \in {"handle", "None", "raised"}
    /\ (fe_pc = "done" /\ \A k \in 1..Len(waits) : waits[k].outcome # "error")
            => fe_result.kind \in {"handle", "None"}

C4_Witness ==
    /\ fe_result.kind = "raised"
    /\ Len(waits) >= 2 /\ waits[1].outcome = "timeout"
    /\ LastWait.outcome = "error"

\* C5: with every wait lasting at most `timeout`, the total wait of a call
\* is at most timeout x (1 + number of fallbacks); when the primary and all
\* fallbacks fail it is at least `timeout` and at most that product.
C5_TotalWaitBounded ==
    /\ TotalWait <= fe_timeout * (1 + Len(fallbacks))
    /\ fe_result = NoneResult =>
        /\ TotalWait >= fe_timeout
        /\ TotalWait <= fe_timeout * (1 + Len(fallbacks))

C5_Witness ==
    /\ fe_result = NoneResult /\ Len(fallbacks) = 2
    /\ TotalWait = fe_timeout * 3 /\ fe_timeout = 2

\* C6 as claimed: every selector string is waited on at most once per call.
C6_SelectorWaitedOnce ==
    \A sel \in Selectors : Cardinality(WaitsOn(sel)) <= 1

\* C6 (amended): every candidate position (the primary, each index of the
\* fallback list) is waited on at most once per call; a selector string is
\* waited on at most as many times as it occurs among the primary and the
\* fallbacks.
C6_CandidateWaitedOnce ==
    /\ \A i \in 0..Len(fallbacks) : Cardinality(WaitsAt(i)) <= 1
    /\ \A sel \in Selectors : Cardinality(WaitsOn(sel)) <= Occurrences(sel)

C6_Witness ==
    /\ fe_pc = "done" /\ fe_result = NoneResult
    /\ fallbacks = <<primary>>
    /\ Cardinality(WaitsOn(primary)) = 2

(***************************************************************************)
(* wait_for_condition                                                      *)
(***************************************************************************)
Messages == {"Condition not met within timeout", "dashboard did not load"}
StartTimes == {0, 5}
\* What one call of condition() can do: return a truthy value, return a falsy
\* value, or raise an Exception.
ConditionOutcomes == {"true", "false", "raise"}

StillPending == [kind |-> "pending", msg |-> ""]
ReturnedTrue == [kind |-> "True", msg |-> ""]
TimeoutError(m) == [kind |-> "TimeoutError", msg |-> m]
ConditionRaised == [kind |-> "raised", msg |-> ""]

WaitIdle ==
    /\ wc_timeout = 0 /\ poll_interval = 0 /\ error_message = ""
    /\ start_time = 0 /\ now = 0 /\ wc_pc = "idle" /\ polls = <<>>
    /\ sleeps = 0 /\ cond_time = 0 /\ wc_result = StillPending

\* wait_for_condition(condition, timeout, poll_interval, error_message) has
\* been entered and start_time = time.time() taken.
WaitInit ==
    /\ wc_timeout \in 0..MaxWaitTimeout
    /\ poll_interval \in 1..MaxPoll
    /\ error_message \in Messages
    /\ start_time \in StartTimes /\ now = start_time
    /\ wc_pc = "test" /\ polls = <<>>
    /\ sleeps = 0 /\ cond_time = 0 /\ wc_result = StillPending

\* A plausible slip: the clock is compared with the timeout, not the elapsed time.
LoopTestAbsolute == now < wc_timeout

\* while time.time() - start_time < timeout
LoopTest == now - start_time < wc_timeout

\* A plausible slip: the message argument is ignored.
RaiseTimeoutDefault ==
    /\ wc_result' = TimeoutError("Condition not met within timeout")
    /\ wc_pc' = "done"

\* raise TimeoutError(error_message)
RaiseTimeout ==
    /\ wc_result' = TimeoutError(error_message)
    /\ wc_pc' = "done"

WaitTest ==
    /\ wc_pc = "test"
    /\ IF LoopTest THEN wc_pc' = "condition" /\ wc_result' = wc_result
                   ELSE RaiseTimeout
    /\ UNCHANGED <<wc_timeout, poll_interval, error_message, start_time, now,
                   polls, sleeps, cond_time>>
    /\ UNCHANGED nonWaitVars

\* A plausible slip: the sleep is taken before the result is looked at.
AfterConditionSleepFirst(o) ==
    IF o = "true"
        THEN wc_result' = ReturnedTrue /\ wc_pc' = "done" /\ sleeps' = sleeps + 1
        ELSE wc_result' = wc_result /\ wc_pc' = "sleep" /\ sleeps' = sleeps

\* A plausible slip: no try/except around the condition() call.
AfterConditionNoExcept(o) ==
    CASE o = "true" -> wc_result' = ReturnedTrue /\ wc_pc' = "done" /\ sleeps' = sleeps
      [] o = "false" -> wc_result' = wc_result /\ wc_pc' = "sleep" /\ sleeps' = sleeps
      [] o = "raise" -> wc_result' = ConditionRaised /\ wc_pc' = "done" /\ sleeps' = sleeps

\* try: if condition(): return True / except Exception: logger.debug(...)
AfterCondition(o) ==
    IF o = "true"
        THEN wc_result' = ReturnedTrue /\ wc_pc' = "done" /\ sleeps' = sleeps
        ELSE wc_result' = wc_result /\ wc_pc' = "sleep" /\ sleeps' = sleeps

\* One call of condition(); it takes d ticks (everything between two reads of
\* the clock that is not the sleep itself counts here).
WaitCondition ==
    /\ wc_pc = "condition"
    /\ \E o \in ConditionOutcomes, d \in 0..MaxCondDur :
        /\ polls' = Append(polls, o)
        /\ now' = now + d
        /\ cond_time' = cond_time + d
        /\ AfterCondition(o)
    /\ UNCHANGED <<wc_timeout, poll_interval, error_message, start_time>>
    /\ UNCHANGED nonWaitVars

\* time.sleep(poll_interval)
WaitSleep ==
    /\ wc_pc = "sleep"
    /\ now' = now + poll_interval
    /\ sleeps' = sleeps + 1
    /\ wc_pc' = "test"
    /\ UNCHANGED <<wc_timeout, poll_interval, error_message, start_time,
                   polls, cond_time, wc_result>>
    /\ UNCHANGED nonWaitVars

(* ---- what the log of one call says ---- *)
LastPoll == polls[Len(polls)]
NotSatisfied == {k \in 1..Len(polls) : polls[k] # "true"}
Slept == sleeps * poll_interval
TimedOut == wc_result.kind = "TimeoutError"

\* C7: the call returns True at the first true result of the predicate: when
\* the k-th evaluation is the first true one, the call ends with True after
\* exactly k evaluations and k-1 sleeps.
C7_ReturnsAtFirstTrue ==
    /\ \A k \in 1..Len(polls) : polls[k] = "true" =>
        /\ k = Len(polls)
        /\ wc_pc = "done" /\ wc_result = ReturnedTrue
        /\ sleeps = k - 1
    /\ wc_result = ReturnedTrue => (polls # <<>> /\ LastPoll = "true")

C7_Witness ==
    /\ wc_result = ReturnedTrue /\ Len(polls) = 3 /\ sleeps = 2

\* C8 as claimed: at a timeout the time slept is at least `timeout` and at
\* most timeout + poll_interval.
C8_SleptBetween ==
    TimedOut => (Slept >= wc_timeout /\ Slept <= wc_timeout + poll_interval)

\* C8 (amended): at a timeout the time slept is at most timeout +
\* poll_interval, and the time slept plus the time spent in the predicate is
\* at least `timeout`; the time slept alone reaches `timeout` when the
\* predicate takes no time.
C8_SleptBounded ==
    TimedOut =>
        /\ Slept <= wc_timeout + poll_interval
        /\ Slept + cond_time >= wc_timeout
        /\ now - start_time = Slept + cond_time
        /\ cond_time = 0 => Slept >= wc_timeout

C8_Witness ==
    /\ TimedOut /\ cond_time > 0 /\ Slept < wc_timeout

\* C9: an exception raised by the predicate never leaves the call; the poll
\* counts as not satisfied and is followed by the sleep like a false one, and
\* a later true result still makes the call return True.
C9_ExceptionSwallowed ==
    /\ wc_result.kind \in {"pending", "True", "TimeoutError"}
    /\ wc_pc = "sleep" => LastPoll \in {"false", "raise"}
    /\ sleeps = Cardinality(NotSatisfied) - (IF wc_pc = "sleep" THEN 1 ELSE 0)
    /\ (polls # <<>> /\ LastPoll = "true") => wc_result = ReturnedTrue

C9_Witness ==
    /\ Len(polls) >= 2 /\ polls[1] = "raise"
    /\ wc_result = ReturnedTrue

\* C10 as claimed: a TimeoutError is raised only after at least one
\* evaluation of the predicate, none of which was true, for every timeout.
C10_TimeoutAfterAPoll ==
    TimedOut => (Len(polls) >= 1 /\ \A k \in 1..Len(polls) : polls[k] # "true")

C10_Outcome ==
    /\ wc_pc = "done" =>
        wc_result \in {ReturnedTrue, TimeoutError(error_message)}
    /\ TimedOut =>
        /\ \A k \in 1..Len(polls) : polls[k] # "true"
        /\ wc_timeout > 0 => Len(polls) >= 1
        /\ wc_timeout = 0 => polls = <<>>

\* C10 (amended): the call always ends, with True or with a TimeoutError
\* carrying the given message; the TimeoutError is raised only when no
\* evaluation returned true, after at least one evaluation when timeout > 0
\* and without any evaluation when timeout is 0.
C10_TerminatesTrueOrTimeout == <>(wc_pc = "done") /\ []C10_Outcome

C10_Witness ==
    /\ TimedOut /\ wc_timeout = 0 /\ polls = <<>>

\* C11 as claimed: a call that returns True has slept at least one
\* poll_interval, also when the predicate was true from the start.
C11_AtLeastOneSleep == wc_result = ReturnedTrue => sleeps >= 1

\* C11 (amended): a call whose first evaluation returns true returns True
\* without any sleep; only a call whose first evaluation was not true returns
\* after at least one poll_interval of sleep.
C11_NoSleepWhenAlreadyTrue ==
    wc_result = ReturnedTrue =>
        /\ polls[1] = "true" => (sleeps = 0 /\ now - start_time = cond_time)
        /\ polls[1] # "true" =>
            (sleeps >= 1 /\ now - start_time >= poll_interval)

C11_Witness ==
    /\ wc_result = ReturnedTrue /\ polls = <<"true">> /\ sleeps = 0

(***************************************************************************)
(* retry_on_failure                                                        *)
(***************************************************************************)
ReturnValues == {"v1", "v2"}
ErrorKinds == {"TimeoutError", "ValueError"}
\* What one call of func() can do: return a value or raise an error.
FuncOutcomes ==
    {[kind |-> "ok", value |-> v, error |-> ""] : v \in ReturnValues}
        \cup {[kind |-> "raise", value |-> "", error |-> e] : e \in ErrorKinds}

\* except exceptions as e: the error is an instance of one of `exceptions`
Matches(o) == o.kind = "raise" /\ o.error \in exceptions

NotReturned == [kind |-> "pending", by |-> 0, value |-> ""]
Returned(k, v) == [kind |-> "value", by |-> k, value |-> v]
\* the error raised by the k-th call of func() reaches the caller
Reraised(k) == [kind |-> "raised", by |-> k, value |-> ""]
\* `raise None`: TypeError, exceptions must derive from BaseException
RaisedNone == [kind |-> "TypeError", by |-> 0, value |-> ""]

RetryIdle ==
    /\ max_attempts = 0 /\ delay = 0 /\ exceptions = {} /\ rf_pc = "idle" /\ attempt = 0
    /\ calls = <<>> /\ delays = 0 /\ last_exception = 0
    /\ rf_result = NotReturned

\* retry_on_failure(func, max_attempts, delay, exceptions) has been entered;
\* last_exception = None
RetryInit ==
    /\ max_attempts \in -1..MaxAttempts
    /\ delay \in 1..MaxDelay
    /\ exceptions \in SUBSET ErrorKinds
    /\ rf_pc = "enter" /\ attempt = 0
    /\ calls = <<>> /\ delays = 0 /\ last_exception = 0
    /\ rf_result = NotReturned

\* raise last_exception
RaiseLast(e) ==
    /\ rf_result' = (IF e = 0 THEN RaisedNone ELSE Reraised(e))
    /\ rf_pc' = "done"

\* for attempt in range(1, max_attempts + 1): the loop takes a, or is over.
ForAttempt(a, e) ==
    IF a <= max_attempts
        THEN rf_pc' = "attempt" /\ attempt' = a /\ rf_result' = rf_result
        ELSE attempt' = attempt /\ RaiseLast(e)

RetryEnter ==
    /\ rf_pc = "enter"
    /\ ForAttempt(1, last_exception)
    /\ UNCHANGED <<max_attempts, delay, exceptions, calls, delays, last_exception>>
    /\ UNCHANGED nonRetryVars

\* A plausible slip: the delay is taken after the final attempt too.
DelayAfterEveryFailure == TRUE

\* if attempt < max_attempts: time.sleep(delay)
DelayAfterFailure == attempt < max_attempts

\* A plausible slip: func() is called but its value is not returned.
OnSuccessNoReturn(k, v) ==
    /\ last_exception' = last_exception
    /\ IF DelayAfterFailure
        THEN rf_pc' = "delay" /\ attempt' = attempt /\ rf_result' = rf_result
        ELSE ForAttempt(attempt + 1, last_exception)

\* return func()
OnSuccess(k, v) ==
    /\ rf_result' = Returned(k, v) /\ rf_pc' = "done"
    /\ attempt' = attempt /\ last_exception' = last_exception

\* except exceptions as e: last_exception = e; delay unless the last attempt
OnRetryable(k) ==
    /\ last_exception' = k
    /\ IF DelayAfterFailure
        THEN rf_pc' = "delay" /\ attempt' = attempt /\ rf_result' = rf_result
        ELSE ForAttempt(attempt + 1, k)

\* A plausible slip: every error is retried, whatever `exceptions` says.
OnOtherErrorRetried(k) == OnRetryable(k)

\* an error that `except exceptions` does not match leaves the call
OnOtherError(k) ==
    /\ rf_result' = Reraised(k) /\ rf_pc' = "done"
    /\ attempt' = attempt /\ last_exception' = last_exception

\* try: return func() / except exceptions as e: ...
RetryAttempt ==
    /\ rf_pc = "attempt"
    /\ \E o \in FuncOutcomes :
        /\ calls' = Append(calls, o)
        /\ CASE o.kind = "ok" -> OnSuccess(Len(calls) + 1, o.value)
             [] Matches(o) -> OnRetryable(Len(calls) + 1)
             [] OTHER -> OnOtherError(Len(calls) + 1)
    /\ UNCHANGED <<max_attempts, delay, exceptions, delays>>
    /\ UNCHANGED nonRetryVars

\* time.sleep(delay), then the next turn of the for loop
RetryDelay ==
    /\ rf_pc = "delay"
    /\ delays' = delays + 1
    /\ ForAttempt(attempt + 1, last_exception)
    /\ UNCHANGED <<max_attempts, delay, exceptions, calls, last_exception>>
    /\ UNCHANGED nonRetryVars

(* ---- what the log of one call says ---- *)
LastCall == calls[Len(calls)]
FailedFirst(k) == \A j \in 1..k : Matches(calls[j])

\* C12: with max_attempts >= 1 and an operation that raises a retryable
\* error on its first k calls (k < max_attempts) and then succeeds, the call
\* returns the operation's value after exactly k+1 calls and k delays.
C12_SucceedsAfterKFailures ==
    \A k \in 0..Len(calls) - 1 :
        (k < max_attempts /\ FailedFirst(k) /\ calls[k + 1].kind = "ok") =>
            /\ Len(calls) = k + 1
            /\ rf_pc = "done"
            /\ rf_result = Returned(k + 1, calls[k + 1].value)
            /\ delays = k

C12_Witness ==
    /\ max_attempts = 3 /\ Len(calls) = 3 /\ FailedFirst(2)
    /\ rf_result = Returned(3, "v2") /\ delays = 2

\* C13: when every attempt raises a retryable error, the operation is
\* called exactly max_attempts times, max_attempts - 1 delays are made (none
\* after the final attempt), and the caller gets the last call's error.
C13_ExhaustedReraisesLast ==
    (rf_pc = "done" /\ calls # <<>> /\ FailedFirst(Len(calls))) =>
        /\ Len(calls) = max_attempts
        /\ delays = max_attempts - 1
        /\ rf_result = Reraised(max_attempts)
        /\ last_exception = max_attempts

C13_Witness ==
    /\ rf_pc = "done" /\ max_attempts = 3 /\ Len(calls) = 3
    /\ FailedFirst(3) /\ delays = 2 /\ rf_result = Reraised(3)

\* C24: for every max_attempts, 0 and negative values included, the call
\* ends by returning a value the operation produced or by raising an error
\* the operation raised, and the operation has been called at least once.
C24_EndsWithOperationsOutcome ==
    rf_pc = "done" =>
        /\ Len(calls) >= 1
        /\ \/ LastCall.kind = "ok"
              /\ rf_result = Returned(Len(calls), LastCall.value)
           \/ LastCall.kind = "raise" /\ rf_result = Reraised(Len(calls))

\* C25: an error that does not match `exceptions` reaches the caller from
\* the attempt in which it occurs: it is the last call of the operation, no
\* delay follows it, and the attempts left are not used.
C25_OtherErrorPropagatesAtOnce ==
    \A k \in 1..Len(calls) :
        (calls[k].kind = "raise" /\ ~Matches(calls[k])) =>
            /\ k = Len(calls)
            /\ rf_pc = "done"
            /\ rf_result = Reraised(k)
            /\ delays = k - 1
            /\ last_exception = k - 1

C25_Witness ==
    /\ max_attempts = 3 /\ exceptions = {"TimeoutError"}
    /\ Len(calls) = 2 /\ calls[1].error = "TimeoutError"
    /\ calls[2].error = "ValueError"
    /\ rf_result = Reraised(2) /\ delays = 1 /\ rf_pc = "done"

(***************************************************************************)
(* DatabaseHelper                                                          *)
(***************************************************************************)
DbMethods == {"execute_query", "execute_query_dict", "fetch_one",
              "fetch_one_dict", "test_connection"}
\* A row is named by a number; SELECT 1 yields the row 1.
RowIds == 1..2
ResultSets == SeqsUpTo(RowIds, MaxRows)

\* The values a call can give its caller.
DbValue(k, r, rs, e) == [kind |-> k, row |-> r, rows |-> rs, error |-> e]
NoValue == DbValue("pending", 0, <<>>, "")
NoneValue == DbValue("None", 0, <<>>, "")
TupleValue(r) == DbValue("tuple", r, <<>>, "")
DictValue(r) == DbValue("dict", r, <<>>, "")
ListValue(rs) == DbValue("list", 0, rs, "")
DictListValue(rs) == DbValue("dictlist", 0, rs, "")
BoolValue(b) == DbValue(IF b THEN "True" ELSE "False", 0, <<>>, "")
\* an exception leaves the call: e says which one
RaisedValue(e) == DbValue("raised", 0, <<>>, e)

\* The exceptions of a call: a psycopg2.Error from connect, from the body or
\* from commit, or an exception of the body that is no psycopg2.Error.
DriverErrors == {"driver:connect", "driver:body", "driver:commit"}
OtherErrors == {"other:body"}

DbIdle ==
    /\ db_pc = "none" /\ db_method = "" /\ db_fetch = TRUE /\ db_rows = <<>>
    /\ db_calls = 0 /\ conns = <<>> /\ db_events = <<>> /\ db_error = ""
    /\ db_value = NoValue /\ db_result = NoValue

\* A DatabaseHelper has been constructed: self.connection_pool = None, no
\* connection yet.
DbInit ==
    /\ db_pc = "idle" /\ db_method = "" /\ db_fetch = TRUE /\ db_rows = <<>>
    /\ db_calls = 0 /\ conns = <<>> /\ db_events = <<>> /\ db_error = ""
    /\ db_value = NoValue /\ db_result = NoValue

\* A plausible slip: fetchall()-style, no row gives an empty tuple.
FetchOneEmptyTuple(rs) == IF rs = <<>> THEN TupleValue(0) ELSE TupleValue(rs[1])

\* cursor.fetchone(): the next row of the result set, None when there is none
FetchOne(rs) == IF rs = <<>> THEN NoneValue ELSE TupleValue(rs[1])

\* What the with-body of a method returns when every driver call in it returns.
BodyValue(m, fetch, rs) ==
    CASE m = "execute_query" -> (IF fetch THEN ListValue(rs) ELSE NoneValue)
      [] m = "execute_query_dict" -> DictListValue(rs)
      [] m = "fetch_one" -> FetchOne(rs)
      [] m = "fetch_one_dict" ->
            (IF FetchOne(rs) = NoneValue THEN NoneValue
             ELSE DictValue(FetchOne(rs).row))
      [] m = "test_connection" ->
            BoolValue(FetchOne(rs) # NoneValue /\ FetchOne(rs).row = 1)

\* What the caller gets when the call ends with exception e ("" for none):
\* test_connection catches every Exception and returns False.
Deliver(m, e, v) ==
    IF e = "" THEN v
    ELSE IF m = "test_connection" THEN BoolValue(FALSE)
    ELSE RaisedValue(e)

NewConn == [open |-> TRUE, commits |-> 0, rollbacks |-> 0, closes |-> 0]
Conn == conns[Len(conns)]

\* a caller invokes one of the methods; the previous call has returned
DbCall ==
    /\ db_pc = "idle" /\ db_calls < MaxCalls
    /\ db_method' \in DbMethods
    /\ db_fetch' \in (IF db_method' = "execute_query" THEN BOOLEAN ELSE {TRUE})
    /\ db_rows' \in ResultSets
    /\ db_calls' = db_calls + 1
    /\ db_pc' = "connect"
    /\ db_events' = <<>> /\ db_error' = "" /\ db_value' = NoValue
    /\ db_result' = NoValue
    /\ UNCHANGED conns
    /\ UNCHANGED nonDbVars

\* conn = psycopg2.connect(...): it returns a connection or raises a
\* psycopg2.Error; then conn is None, nothing to roll back or close.
DbConnect ==
    /\ db_pc = "connect"
    /\ \/ /\ conns' = Append(conns, NewConn)
          /\ db_events' = Append(db_events, "connect")
          /\ db_pc' = "body"
          /\ UNCHANGED <<db_error, db_result>>
       \/ /\ conns' = conns
          /\ db_events' = Append(db_events, "connect_failed")
          /\ db_error' = "driver:connect"
          /\ db_result' = Deliver(db_method, "driver:connect", db_value)
          /\ db_pc' = "idle"
    /\ UNCHANGED <<db_method, db_fetch, db_rows, db_calls, db_value>>
    /\ UNCHANGED nonDbVars

\* A plausible slip: no rollback in the except clause.
AfterDriverErrorNoRollback == "close"

\* except psycopg2.Error: if conn: conn.rollback()
AfterDriverError == "rollback"

\* A plausible slip: no finally clause, an unexpected exception skips close.
AfterOtherErrorNoFinally == "idle"

\* an exception that is no psycopg2.Error goes straight to the finally clause
AfterOtherError == "close"

\* The with-body (yield conn): cursor, execute, fetch, cursor.close().  It
\* returns, raises a psycopg2.Error, or raises another exception.
DbBody ==
    /\ db_pc = "body"
    /\ \/ /\ db_events' = Append(db_events, "body")
          /\ db_value' = BodyValue(db_method, db_fetch, db_rows)
          /\ db_pc' = "commit"
          /\ UNCHANGED <<db_error, db_result>>
       \/ /\ db_events' = Append(db_events, "body_failed")
          /\ db_error' = "driver:body"
          /\ db_pc' = AfterDriverError
          /\ UNCHANGED <<db_value, db_result>>
       \/ /\ db_events' = Append(db_events, "body_failed")
          /\ db_error' = "other:body"
          /\ db_pc' = AfterOtherError
          /\ db_result' = (IF AfterOtherError = "idle"
                              THEN Deliver(db_method, "other:body", db_value)
                              ELSE db_result)
          /\ UNCHANGED db_value
    /\ UNCHANGED <<db_method, db_fetch, db_rows, db_calls, conns>>
    /\ UNCHANGED nonDbVars

\* conn.commit() after the body: it returns or raises a psycopg2.Error
DbCommit ==
    /\ db_pc = "commit"
    /\ \/ /\ conns' = [conns EXCEPT ![Len(conns)].commits = @ + 1]
          /\ db_events' = Append(db_events, "commit")
          /\ db_pc' = "close"
          /\ UNCHANGED db_error
       \/ /\ conns' = conns
          /\ db_events' = Append(db_events, "commit_failed")
          /\ db_error' = "driver:commit"
          /\ db_pc' = AfterDriverError
    /\ UNCHANGED <<db_method, db_fetch, db_rows, db_calls, db_value, db_result>>
    /\ UNCHANGED nonDbVars

\* conn.rollback(); raise
DbRollback ==
    /\ db_pc = "rollback"
    /\ conns' = [conns EXCEPT ![Len(conns)].rollbacks = @ + 1]
    /\ db_events' = Append(db_events, "rollback")
    /\ db_pc' = "close"
    /\ UNCHANGED <<db_method, db_fetch, db_rows, db_calls, db_error, db_value,
                   db_result>>
    /\ UNCHANGED nonDbVars

\* finally: if conn: conn.close(); then the call gives its caller the value
\* or the exception.
DbClose ==
    /\ db_pc = "close"
    /\ conns' = [conns EXCEPT ![Len(conns)].open = FALSE,
                              ![Len(conns)].closes = @ + 1]
    /\ db_events' = Append(db_events, "close")
    /\ db_result' = Deliver(db_method, db_error, db_value)
    /\ db_pc' = "idle"
    /\ UNCHANGED <<db_method, db_fetch, db_rows, db_calls, db_error, db_value>>
    /\ UNCHANGED nonDbVars

(* ---- what the log of one call says ---- *)
Did(ev) == \E k \in 1..Len(db_events) : db_events[k] = ev
Before(a, b) ==
    \E i, j \in 1..Len(db_events) : i < j /\ db_events[i] = a /\ db_events[j] = b
CallOver == db_pc = "idle" /\ db_calls >= 1
QueryMethods == DbMethods \ {"test_connection"}

\* C14: when the with-body of get_connection completes without error and the
\* commit returns, the connection is committed exactly once and never rolled
\* back; when a psycopg2.Error is raised in the body or by the commit, the
\* connection is rolled back, not committed, and then that same error is
\* raised to the caller (test_connection, which catches it, returns False).
C14_CommitOrRollback ==
    /\ \A k \in 1..Len(conns) :
        conns[k].commits + conns[k].rollbacks <= 1
    /\ (CallOver /\ Did("body") /\ Did("commit")) =>
        /\ Conn.commits = 1 /\ Conn.rollbacks = 0
        /\ db_error = ""
        /\ db_result = BodyValue(db_method, db_fetch, db_rows)
    /\ (CallOver /\ db_error \in {"driver:body", "driver:commit"}) =>
        /\ Conn.rollbacks = 1 /\ Conn.commits = 0
        /\ Before("rollback", "close")
        /\ db_error = "driver:body" <=> ~Did("body")
        /\ db_error = "driver:commit" <=> Did("commit_failed")
        /\ db_method \in QueryMethods => db_result = RaisedValue(db_error)
        /\ db_method = "test_connection" => db_result = BoolValue(FALSE)

C14_Witness ==
    /\ CallOver /\ db_method = "execute_query" /\ db_error = "driver:commit"
    /\ Conn.rollbacks = 1 /\ db_result = RaisedValue("driver:commit")

\* C15: after any sequence of calls, each having returned or raised, no
\* connection opened by the helper is open: every connection that
\* psycopg2.connect returned is closed exactly once before the call that
\* opened it gives control back.
C15_NoConnectionLeftOpen ==
    /\ \A k \in 1..Len(conns) :
        /\ conns[k].closes <= 1
        /\ conns[k].open <=> conns[k].closes = 0
        /\ conns[k].open =>
            (k = Len(conns) /\ db_pc \in {"body", "commit", "rollback", "close"})
    /\ db_pc = "idle" =>
        \A k \in 1..Len(conns) : ~conns[k].open /\ conns[k].closes = 1
    /\ (CallOver /\ Did("connect")) => db_events[Len(db_events)] = "close"

C15_Witness ==
    /\ CallOver /\ db_calls = 2 /\ Len(conns) = 2
    /\ conns[1].commits = 1 /\ db_error = "other:body"
    /\ db_result.kind = "raised" /\ ~Conn.open

\* C16: fetch_one gives None when the query matches no row (not an empty
\* tuple, not an exception) and the first row when it matches at least one.
C16_FetchOneNoneOrFirstRow ==
    (CallOver /\ db_method = "fetch_one" /\ Did("body") /\ Did("commit")) =>
        /\ db_rows = <<>> => db_result = NoneValue
        /\ db_rows # <<>> => db_result = TupleValue(db_rows[1])
        /\ db_result.kind \in {"None", "tuple"}

C16_Witness ==
    /\ CallOver /\ db_method = "fetch_one" /\ db_rows = <<>>
    /\ Did("commit") /\ db_result = NoneValue

\* C30: every connection psycopg2.connect returned is committed or rolled
\* back exactly once before it is closed, however the with-body ends: normal
\* completion, early return, driver error or any other exception.
C30_CommittedOrRolledBackOnce ==
    \A k \in 1..Len(conns) :
        ~conns[k].open => conns[k].commits + conns[k].rollbacks = 1

(***************************************************************************)
(* DatabaseHelper.__init__: arguments, environment and validation          *)
(***************************************************************************)
RequiredParams == {"host", "database", "username", "password"}
\* An argument is None, the empty string or a value; an environment variable
\* is unset (os.getenv gives None), empty or a value.
ArgValues == {"None", "", "arg"}
EnvValues == {"None", "", "env"}
Falsy(v) == v \in {"None", ""}

\* self.x = x or os.getenv("DB_X")
ArgOrEnv(arg, env) == IF Falsy(arg) THEN env ELSE arg

\* port or int(os.getenv("DB_PORT", "5432")): int() of a text that is no
\* number raises ValueError
PortArgs == {"None", "5433"}
PortEnvs == {"None", "6543", "abc"}
PortOrEnv(arg, env) ==
    IF arg # "None" THEN arg
    ELSE IF env = "None" THEN "5432"
    ELSE IF env = "abc" THEN "ValueError"
    ELSE env

\* the required parameters for which neither the argument nor the
\* environment gives a value
Absent(args, envs) ==
    {p \in RequiredParams : Falsy(args[p]) /\ Falsy(envs[p])}

\* A plausible slip: only the host is validated.
MissingRequiredHostOnly(cfg) == Falsy(cfg["host"])

\* not all([self.host, self.database, self.username, self.password])
MissingRequired(cfg) == \E p \in RequiredParams : Falsy(cfg[p])

NoConfig == [p \in RequiredParams |-> "None"]

ConfigIdle ==
    /\ PSYCOPG2_AVAILABLE = TRUE /\ absent = {} /\ db_config = NoConfig
    /\ db_port = "None" /\ init_error = ""

\* the module has been imported; no DatabaseHelper has been constructed
ConfigInit ==
    /\ PSYCOPG2_AVAILABLE \in BOOLEAN /\ absent = {} /\ db_config = NoConfig
    /\ db_port = "None" /\ init_error = ""
    /\ db_pc = "new" /\ db_method = "" /\ db_fetch = TRUE /\ db_rows = <<>>
    /\ db_calls = 0 /\ conns = <<>> /\ db_events = <<>> /\ db_error = ""
    /\ db_value = NoValue /\ db_result = NoValue

\* DatabaseHelper(host, port, database, username, password): the helper
\* exists (db_pc = "idle") only when the constructor returns
DatabaseHelperInit ==
    /\ db_pc = "new"
    /\ \E args \in [RequiredParams -> ArgValues],
          envs \in [RequiredParams -> EnvValues],
          port \in PortArgs, port_env \in PortEnvs :
        LET cfg == [p \in RequiredParams |-> ArgOrEnv(args[p], envs[p])] IN
        /\ absent' = Absent(args, envs)
        /\ IF ~PSYCOPG2_AVAILABLE THEN
                /\ init_error' = "ImportError"
                /\ db_config' = db_config /\ db_port' = db_port
           ELSE IF PortOrEnv(port, port_env) = "ValueError" THEN
                /\ init_error' = "ValueError:port"
                /\ db_config' = [cfg EXCEPT !["database"] = "None",
                                            !["username"] = "None",
                                            !["password"] = "None"]
                /\ db_port' = db_port
           ELSE
                /\ db_config' = cfg
                /\ db_port' = PortOrEnv(port, port_env)
                /\ init_error' =
                    (IF MissingRequired(cfg) THEN "ValueError" ELSE "")
    /\ db_pc' = (IF init_error' = "" THEN "idle" ELSE "failed")
    /\ UNCHANGED <<PSYCOPG2_AVAILABLE, db_method, db_fetch, db_rows, db_calls,
                   conns, db_events, db_error, db_value, db_result>>
    /\ UNCHANGED <<locatorVars, waitVars, retryVars, scenarioVars,
                   overviewVars, credentialsVars, loginVars>>

Constructed == db_pc \notin {"none", "new"}

\* C21: constructing DatabaseHelper with any of host, database, username or
\* password absent raises ValueError in the constructor, before any method
\* makes a connection attempt.
C21_AbsentRaisesValueError ==
    (Constructed /\ absent # {}) =>
        /\ init_error \in {"ValueError", "ValueError:port"}
        /\ db_pc = "failed" /\ db_events = <<>> /\ conns = <<>>

\* C21, amended: when psycopg2 is not importable the constructor raises
\* ImportError before it looks at the parameters; otherwise an absent
\* required parameter raises ValueError.  Either way no helper exists and no
\* connection attempt is ever made; a helper that exists has all four.
C21_AbsentRaisesBeforeUse ==
    /\ (Constructed /\ absent # {}) =>
        /\ init_error =
            (IF PSYCOPG2_AVAILABLE
                THEN (IF init_error = "ValueError:port"
                        THEN "ValueError:port" ELSE "ValueError")
                ELSE "ImportError")
        /\ db_pc = "failed" /\ db_events = <<>> /\ conns = <<>>
    /\ (db_events # <<>> \/ conns # <<>> \/ db_calls > 0) =>
        /\ init_error = "" /\ absent = {} /\ ~MissingRequired(db_config)

C21_Witness ==
    /\ db_pc = "failed" /\ PSYCOPG2_AVAILABLE /\ init_error = "ValueError"
    /\ absent = {"password"} /\ db_config["host"] = "env"
    /\ db_config["password"] = ""

(***************************************************************************)
(* Credential sets: config/settings.py and config/api_config.py            *)
(***************************************************************************)
CredFields == {"client_id", "client_secret", "username", "password", "grant_type"}
CredRequired == {"client_id", "client_secret", "username", "password"}
Variants == {"valid", "invalid_username", "invalid_password"}

\* TEST_CREDENTIALS of api_config: three dict literals
TEST_CREDENTIALS ==
    [v \in Variants |->
        [client_id |-> "be-admin", client_secret |-> "secret",
         username |-> (IF v = "invalid_username" THEN "invalid@qualgo.net"
                       ELSE "thao.pt@qualgo.net"),
         password |-> (IF v = "invalid_password" THEN "WrongPassword123@"
                       ELSE "Password123@"),
         grant_type |-> "password"]]

\* The KEYCLOAK_* settings read from the environment at import: a required
\* one is unset (None), empty or set; the others have defaults.
KeycloakSettings ==
    {[client_id |-> a, client_secret |-> b, username |-> c, password |-> d,
      grant_type |-> "password", invalid_username |-> e,
      invalid_password |-> "WrongPassword123@"] :
        a \in {"None", "", "cid"}, b \in {"None", "", "sec"},
        c \in {"None", "", "user"}, d \in {"None", "", "pw"},
        e \in {"invalid@qualgo.net", "user"}}

\* config.settings has not been imported
NoSettings ==
    [client_id |-> "none", client_secret |-> "none", username |-> "none",
     password |-> "none", grant_type |-> "none", invalid_username |-> "none",
     invalid_password |-> "none"]
Loaded == keycloak # NoSettings

CredentialsIdle ==
    /\ keycloak = NoSettings /\ heap = <<>> /\ refs = <<>> /\ touched = {}
    /\ cred_calls = 0 /\ cred_error = ""

\* after import: the three dicts of TEST_CREDENTIALS exist, nothing else
CredentialsInit ==
    /\ keycloak \in KeycloakSettings
    /\ heap = <<TEST_CREDENTIALS["valid"], TEST_CREDENTIALS["invalid_username"],
                TEST_CREDENTIALS["invalid_password"]>>
    /\ refs = <<[variant |-> "valid", obj |-> 1, from |-> "api_config"],
                [variant |-> "invalid_username", obj |-> 2, from |-> "api_config"],
                [variant |-> "invalid_password", obj |-> 3, from |-> "api_config"]>>
    /\ touched = {}
    /\ cred_calls = 0 /\ cred_error = ""

\* if not all([KEYCLOAK_CLIENT_ID, ...]): raise ValueError
NotConfigured == \E f \in CredRequired : Falsy(keycloak[f])

\* the dict get_valid_credentials returns
ValidDict == [f \in CredFields |-> keycloak[f]]

\* A plausible slip: one module-level dict is returned by every call.
ValidObjectShared(h) == 4

\* the dict literal of get_valid_credentials creates a new object
ValidObject(h) == Len(h) + 1

\* the heap after get_valid_credentials has run
get_valid_credentials(h) ==
    IF ValidObject(h) <= Len(h) THEN h ELSE Append(h, ValidDict)

\* base[field] = value on the object a call got
SetItem(h, obj, field, value) == [h EXCEPT ![obj][field] = value]

\* One call of a credentials function: variant says which; override is the
\* field the invalid variants overwrite on the dict they got.
GetCredentials(variant, field, value) ==
    /\ Loaded /\ cred_calls < MaxCredCalls
    /\ cred_calls' = cred_calls + 1
    /\ IF NotConfigured
        THEN /\ cred_error' = "ValueError"
             /\ UNCHANGED <<heap, refs>>
        ELSE /\ cred_error' = ""
             /\ heap' = (IF variant = "valid" THEN get_valid_credentials(heap)
                         ELSE SetItem(get_valid_credentials(heap),
                                      ValidObject(heap), field, value))
             /\ refs' = Append(refs, [variant |-> variant,
                                      obj |-> ValidObject(heap),
                                      from |-> "settings"])
    /\ UNCHANGED <<keycloak, touched>>
    /\ UNCHANGED nonCredentialsVars

GetValidCredentials == GetCredentials("valid", "", "")
GetInvalidUsernameCredentials ==
    GetCredentials("invalid_username", "username", keycloak.invalid_username)
GetInvalidPasswordCredentials ==
    GetCredentials("invalid_password", "password", keycloak.invalid_password)

\* a caller changes a field of a dict it holds
MutateCredentials ==
    /\ Loaded /\ Cardinality(touched) < MaxMutations
    /\ \E k \in 1..Len(refs), f \in CredFields :
        /\ refs[k].obj \notin touched
        /\ heap' = SetItem(heap, refs[k].obj, f, "mutated")
        /\ touched' = touched \cup {refs[k].obj}
    /\ UNCHANGED <<keycloak, refs, cred_calls, cred_error>>
    /\ UNCHANGED nonCredentialsVars

\* what a variant holds as long as its holder has not changed it
Expected(r) ==
    IF r.from = "api_config" THEN TEST_CREDENTIALS[r.variant]
    ELSE CASE r.variant = "valid" -> ValidDict
           [] r.variant = "invalid_username" ->
                [ValidDict EXCEPT !["username"] = keycloak.invalid_username]
           [] r.variant = "invalid_password" ->
                [ValidDict EXCEPT !["password"] = keycloak.invalid_password]

\* C22: the invalid-username variant equals the valid set in every field but
\* username, the invalid-password variant in every field but password;
\* producing or mutating one variant leaves every other dict as it was, for
\* any sequence of calls; each function raises ValueError when a required
\* setting is unset.
C22_VariantsIndependent ==
    /\ \A k \in 1..Len(refs) :
        /\ refs[k].obj \notin touched => heap[refs[k].obj] = Expected(refs[k])
        /\ \A f \in CredFields :
            (refs[k].variant = "invalid_username" /\ f # "username")
                => Expected(refs[k])[f] =
                    Expected([refs[k] EXCEPT !.variant = "valid"])[f]
        /\ \A f \in CredFields :
            (refs[k].variant = "invalid_password" /\ f # "password")
                => Expected(refs[k])[f] =
                    Expected([refs[k] EXCEPT !.variant = "valid"])[f]
        /\ \A j \in 1..Len(refs) : j # k => refs[j].obj # refs[k].obj
    /\ (Loaded /\ NotConfigured) =>
        /\ Len(refs) = 3
        /\ cred_calls >= 1 => cred_error = "ValueError"
    /\ (Loaded /\ ~NotConfigured) =>
        /\ cred_error = "" /\ Len(refs) = 3 + cred_calls

C22_Witness ==
    /\ Len(refs) = 5 /\ refs[4].variant = "invalid_username"
    /\ refs[5].variant = "valid" /\ touched = {4}
    /\ heap[4]["password"] = "mutated" /\ heap[5] = ValidDict
    /\ heap[4]["username"] = keycloak.invalid_username

C22_WitnessUnset ==
    /\ Loaded /\ keycloak.client_secret = "None"
    /\ cred_calls = 2 /\ cred_error = "ValueError" /\ Len(refs) = 3

(***************************************************************************)
(* LoginPage (pages/login_page.py) and the manual MFA step                 *)
(***************************************************************************)
InputFields == {"email", "password", "mfa_code"}
CallOutcomes == {"ok", "raise"}
Ev(ev, what) == [ev |-> ev, what |-> what]

LoginPending == [kind |-> "pending", error |-> ""]
LoginReturned == [kind |-> "returned", error |-> ""]
LoginRaised(e) == [kind |-> "raised", error |-> e]

\* One attempt on a selector: wait_for_selector (w), then page.fill (f).  A
\* call that raises has no effect on the page.
Attempt(sel, w, f) ==
    IF w = "raise" THEN <<Ev("wait_failed", sel)>>
    ELSE IF f = "raise" THEN <<Ev("wait", sel), Ev("fill_failed", sel)>>
    ELSE <<Ev("wait", sel), Ev("fill", sel)>>
AttemptFailed(w, f) == w = "raise" \/ f = "raise"

\* A plausible slip: no method swallows the failure of both attempts.
SwallowsNothing(field) == FALSE

\* enter_mfa_code wraps the alternate attempt in try/except and prints;
\* enter_email and enter_password do not
SwallowsBothFailed(field) == field = "mfa_code"

\* enter_email / enter_password / enter_mfa_code: what the call does to the
\* page, given the outcomes of the engine calls
EnterEvents(o) ==
    IF AttemptFailed(o.wait1, o.fill1)
        THEN Attempt("primary", o.wait1, o.fill1)
                \o Attempt("alt", o.wait2, o.fill2)
        ELSE Attempt("primary", o.wait1, o.fill1)
EnterResult(field, o) ==
    IF AttemptFailed(o.wait1, o.fill1) /\ AttemptFailed(o.wait2, o.fill2)
        /\ ~SwallowsBothFailed(field)
        THEN LoginRaised("alt")
        ELSE LoginReturned
EnterOutcomes == [wait1 : CallOutcomes, fill1 : CallOutcomes,
                  wait2 : CallOutcomes, fill2 : CallOutcomes]

\* seconds = 20 in manual_enter_mfa_code
MfaSeconds == 20

\* the calls complete_full_login makes, in order
FlowSteps(stay) ==
    <<"click_sign_in_with_microsoft", "enter_email", "click_next",
      "enter_password", "click_sign_in", "manual_enter_mfa_code",
      IF stay THEN "click_stay_signed_in_yes" ELSE "click_stay_signed_in_no",
      "get_dashboard_heading_text">>
\* click_stay_signed_in_yes catches what its clicks raise
StepSwallows(step) == step = "click_stay_signed_in_yes"
FieldOf(step) == IF step = "enter_email" THEN "email" ELSE "password"

LoginIdle ==
    /\ lg_pc = "none" /\ lg_op = "" /\ lg_field = "" /\ stay_signed_in = TRUE
    /\ flow_idx = 0 /\ remaining = 0 /\ lg_sleeps = 0 /\ lg_log = <<>>
    /\ lg_result = LoginPending

\* a LoginPage exists on the Microsoft sign-in flow; nothing has been called
LoginInit ==
    /\ lg_pc = "ready" /\ lg_op = "" /\ lg_field = "" /\ stay_signed_in = TRUE
    /\ flow_idx = 0 /\ remaining = 0 /\ lg_sleeps = 0 /\ lg_log = <<>>
    /\ lg_result = LoginPending

\* one call of enter_email, enter_password or enter_mfa_code from a step
EnterField ==
    /\ lg_pc = "ready"
    /\ \E field \in InputFields, o \in EnterOutcomes :
        /\ lg_field' = field
        /\ lg_log' = EnterEvents(o)
        /\ lg_result' = EnterResult(field, o)
    /\ lg_op' = "enter" /\ lg_pc' = "done"
    /\ UNCHANGED <<stay_signed_in, flow_idx, remaining, lg_sleeps>>
    /\ UNCHANGED nonLoginVars

\* the step "I wait 10 seconds for manual MFA code entry" calls
\* manual_enter_mfa_code
StepWaitForManualMfa ==
    /\ lg_pc = "ready"
    /\ lg_op' = "step_wait_for_manual_mfa_code_entry"
    /\ remaining' = MfaSeconds /\ lg_pc' = "countdown"
    /\ UNCHANGED <<lg_field, stay_signed_in, flow_idx, lg_sleeps, lg_log,
                   lg_result>>
    /\ UNCHANGED nonLoginVars

\* after the for loop of manual_enter_mfa_code: back in the caller
AfterCountdown ==
    IF lg_op = "complete_full_login"
        THEN lg_pc' = "flow" /\ flow_idx' = flow_idx + 1
             /\ lg_result' = lg_result
        ELSE lg_pc' = "done" /\ flow_idx' = flow_idx
             /\ lg_result' = LoginReturned

\* for i in range(seconds, 0, -1): time.sleep(1)
MfaSleep ==
    /\ lg_pc = "countdown"
    /\ IF remaining > 0
        THEN /\ remaining' = remaining - 1 /\ lg_sleeps' = lg_sleeps + 1
             /\ UNCHANGED <<lg_pc, flow_idx, lg_result>>
        ELSE /\ AfterCountdown
             /\ UNCHANGED <<remaining, lg_sleeps>>
    /\ UNCHANGED <<lg_op, lg_field, stay_signed_in, lg_log>>
    /\ UNCHANGED nonLoginVars

\* complete_full_login(email, password, stay_signed_in) is entered
CompleteFullLogin ==
    /\ lg_pc = "ready"
    /\ lg_op' = "complete_full_login"
    /\ stay_signed_in' \in BOOLEAN
    /\ flow_idx' = 1 /\ lg_pc' = "flow"
    /\ UNCHANGED <<lg_field, remaining, lg_sleeps, lg_log, lg_result>>
    /\ UNCHANGED nonLoginVars

\* the next call of complete_full_login: it returns, or what it raises
\* leaves complete_full_login
FlowStep ==
    /\ lg_pc = "flow"
    /\ IF flow_idx > Len(FlowSteps(stay_signed_in)) THEN
            /\ lg_pc' = "done" /\ lg_result' = LoginReturned
            /\ UNCHANGED <<flow_idx, remaining, lg_log>>
       ELSE LET step == FlowSteps(stay_signed_in)[flow_idx] IN
            IF step = "manual_enter_mfa_code" THEN
                /\ lg_log' = Append(lg_log, Ev("call", step))
                /\ remaining' = MfaSeconds /\ lg_pc' = "countdown"
                /\ UNCHANGED <<flow_idx, lg_result>>
            ELSE IF step \in {"enter_email", "enter_password"} THEN
                \E o \in EnterOutcomes :
                    /\ lg_log' = Append(lg_log, Ev("call", step))
                                    \o EnterEvents(o)
                    /\ IF EnterResult(FieldOf(step), o) = LoginReturned
                        THEN lg_pc' = "flow" /\ flow_idx' = flow_idx + 1
                             /\ lg_result' = lg_result
                        ELSE lg_pc' = "done" /\ flow_idx' = flow_idx
                             /\ lg_result' = LoginRaised(step)
                    /\ UNCHANGED remaining
            ELSE
                \E c \in CallOutcomes :
                    /\ lg_log' = Append(lg_log,
                            Ev(IF c = "ok" THEN "call" ELSE "call_failed", step))
                    /\ IF c = "ok" \/ StepSwallows(step)
                        THEN lg_pc' = "flow" /\ flow_idx' = flow_idx + 1
                             /\ lg_result' = lg_result
                        ELSE lg_pc' = "done" /\ flow_idx' = flow_idx
                             /\ lg_result' = LoginRaised(step)
                    /\ UNCHANGED remaining
    /\ UNCHANGED <<lg_op, lg_field, stay_signed_in, lg_sleeps>>
    /\ UNCHANGED nonLoginVars

(* ---- what the log of a call says ---- *)
\* the methods complete_full_login called, in order
RECURSIVE MethodCalls(_)
MethodCalls(log) ==
    IF log = <<>> THEN <<>>
    ELSE IF Head(log).ev \in {"call", "call_failed"}
        THEN <<Head(log).what>> \o MethodCalls(Tail(log))
        ELSE MethodCalls(Tail(log))
Fills == {k \in 1..Len(lg_log) : lg_log[k].ev = "fill"}
PrimaryFailedAt(k) ==
    lg_log[k].what = "primary" /\ lg_log[k].ev \in {"wait_failed", "fill_failed"}
BothFailed ==
    /\ \E k \in 1..Len(lg_log) : PrimaryFailedAt(k)
    /\ \E k \in 1..Len(lg_log) :
        lg_log[k].what = "alt" /\ lg_log[k].ev \in {"wait_failed", "fill_failed"}
EnterDone == lg_op = "enter" /\ lg_pc = "done"

\* C26: the step "I wait 10 seconds for manual MFA code entry" performs
\* exactly 10 one-second sleeps before it returns.
C26_TenSleeps ==
    (lg_op = "step_wait_for_manual_mfa_code_entry" /\ lg_pc = "done") =>
        lg_sleeps = 10

\* C27: complete_full_login clicks Sign in with Microsoft, enters the email,
\* clicks Next, enters the password, clicks Sign in, pauses for the manual
\* MFA entry, clicks Verify, handles the stay-signed-in prompt and waits for
\* the dashboard heading, in this order.
C27_VerifyClickedAfterPause ==
    (lg_op = "complete_full_login" /\ lg_pc = "done"
        /\ lg_result = LoginReturned) =>
        MethodCalls(lg_log) =
            <<"click_sign_in_with_microsoft", "enter_email", "click_next",
              "enter_password", "click_sign_in", "manual_enter_mfa_code",
              "click_verify",
              IF stay_signed_in THEN "click_stay_signed_in_yes"
                                ELSE "click_stay_signed_in_no",
              "get_dashboard_heading_text">>

\* C29: in enter_email, enter_password and enter_mfa_code the alternate
\* selector is waited on and filled only after the attempt on the primary
\* selector failed, at most one fill takes effect per call, and when both
\* attempts fail the error reaches the calling step.
C29_BothFailedRaises ==
    EnterDone =>
        /\ \A k \in 1..Len(lg_log) :
            lg_log[k].what = "alt" => \E j \in 1..(k - 1) : PrimaryFailedAt(j)
        /\ Cardinality(Fills) <= 1
        /\ BothFailed => lg_result.kind = "raised"

\* C29, amended: as above, but only enter_email and enter_password let the
\* alternate attempt's error reach the caller; enter_mfa_code prints a
\* message and returns when both attempts fail.
C29_BothFailedRaisesUnlessMfa ==
    EnterDone =>
        /\ \A k \in 1..Len(lg_log) :
            lg_log[k].what = "alt" => \E j \in 1..(k - 1) : PrimaryFailedAt(j)
        /\ Cardinality(Fills) <= 1
        /\ (BothFailed /\ lg_field \in {"email", "password"})
            => lg_result = LoginRaised("alt")
        /\ (BothFailed /\ lg_field = "mfa_code") => lg_result = LoginReturned
        /\ ~BothFailed => (lg_result = LoginReturned /\ Cardinality(Fills) = 1)

C29_Witness ==
    /\ EnterDone /\ lg_field = "password" /\ BothFailed
    /\ lg_log = <<Ev("wait", "primary"), Ev("fill_failed", "primary"),
                  Ev("wait_failed", "alt")>>
    /\ lg_result = LoginRaised("alt")

(***************************************************************************)
(* Scenario hooks: behave (features/environment.py) and pytest (conftest)  *)
(***************************************************************************)
Runners == {"behave", "pytest"}

\* A hook run so far: what it logged or produced, in order; the call whose
\* exception left the hook ("" while none did); the scenario's context.
HookRun(log, esc, ctx) == [log |-> log, esc |-> esc, ctx |-> ctx]
Say(h, ev) == [h EXCEPT !.log = Append(@, ev)]
Escape(h, call) == [h EXCEPT !.esc = call]

\* browser.new_context(), tracing.start() if TRACE, new_page()
NewContext(tracing) == [open |-> TRUE, page_open |-> TRUE, tracing |-> tracing]
Ctx == contexts[Len(contexts)]
StopTracing(h) == [h EXCEPT !.ctx.tracing = FALSE]
ClosePage(h) == [h EXCEPT !.ctx.page_open = FALSE]
\* closing a browser context closes the pages that belong to it
CloseContext(h) == [h EXCEPT !.ctx.open = FALSE, !.ctx.page_open = FALSE]

\* The calls of a hook that can raise; a hook run draws the set that does.
BehaveFaults == {"makedirs:trace", "tracing.stop", "attach:trace",
                 "makedirs:screenshot", "page.screenshot", "attach:screenshot",
                 "attach:page_info", "page.close", "context.close"}
ReportFaults == {"makedirs:screenshot", "page.screenshot"}
TeardownFaults == {"makedirs:trace", "tracing.stop", "context.close"}
\* the calls that capture or attach an artifact
ArtifactCalls == {"makedirs:trace", "tracing.stop", "attach:trace",
                  "makedirs:screenshot", "page.screenshot",
                  "attach:screenshot", "attach:page_info"}

ScenarioIdle ==
    /\ runner = "none" /\ TRACE = FALSE /\ SCREENSHOT_ON_FAILURE = FALSE
    /\ ALLURE_AVAILABLE = FALSE /\ rep_call = FALSE /\ pytest_html = FALSE
    /\ sc_pc = "none" /\ scenarios = 0 /\ contexts = <<>> /\ status = "none"
    /\ sc_log = <<>> /\ escaped = <<>>

\* The settings are read once at import. rep_call is whether some plugin
\* stores the call report on the test item (nothing in this repository
\* does); pytest_html is whether that plugin is registered. The behave hooks
\* read neither, the pytest hooks read neither SCREENSHOT_ON_FAILURE nor
\* ALLURE_AVAILABLE.
ScenarioInit ==
    /\ runner \in Runners
    /\ TRACE \in BOOLEAN
    /\ SCREENSHOT_ON_FAILURE \in (IF runner = "behave" THEN BOOLEAN ELSE {FALSE})
    /\ ALLURE_AVAILABLE \in (IF runner = "behave" THEN BOOLEAN ELSE {FALSE})
    /\ rep_call \in (IF runner = "pytest" THEN BOOLEAN ELSE {FALSE})
    /\ pytest_html \in (IF runner = "pytest" THEN BOOLEAN ELSE {FALSE})
    /\ sc_pc = "start" /\ scenarios = 0 /\ contexts = <<>> /\ status = "none"
    /\ sc_log = <<>> /\ escaped = <<>>

Failed == status = "failed"
Escaped(hook, h) ==
    IF h.esc = "" THEN escaped
    ELSE Append(escaped, [hook |-> hook, call |-> h.esc])

(* ---- behave: after_scenario, section by section ---- *)
\* "Save trace on failure": os.makedirs is outside the try
SaveTrace(h, f) ==
    IF TRACE /\ Failed THEN
        IF "makedirs:trace" \in f THEN Escape(h, "makedirs:trace")
        ELSE IF "tracing.stop" \in f THEN Say(h, "error:tracing.stop")
        ELSE IF ~ALLURE_AVAILABLE THEN Say(StopTracing(h), "trace")
        ELSE IF "attach:trace" \in f
             THEN Say(Say(StopTracing(h), "trace"), "debug:attach:trace")
        ELSE Say(Say(StopTracing(h), "trace"), "attached:trace")
    ELSE IF TRACE THEN
        IF "tracing.stop" \in f THEN Say(h, "error:tracing.stop")
        ELSE StopTracing(h)
    ELSE h

\* "Take screenshot on failure": os.makedirs is outside the try
TakeScreenshot(h, f) ==
    IF h.esc # "" THEN h
    ELSE IF SCREENSHOT_ON_FAILURE /\ Failed THEN
        IF "makedirs:screenshot" \in f THEN Escape(h, "makedirs:screenshot")
        ELSE IF "page.screenshot" \in f THEN Say(h, "error:page.screenshot")
        ELSE IF ~ALLURE_AVAILABLE THEN Say(h, "screenshot")
        ELSE IF "attach:screenshot" \in f
             THEN Say(Say(h, "screenshot"), "debug:attach:screenshot")
        ELSE Say(Say(h, "screenshot"), "attached:screenshot")
    ELSE h

\* "Attach browser console logs on failure"
AttachPageInfo(h, f) ==
    IF h.esc # "" THEN h
    ELSE IF ALLURE_AVAILABLE /\ Failed THEN
        IF "attach:page_info" \in f THEN Say(h, "debug:attach:page_info")
        ELSE Say(h, "attached:page_info")
    ELSE h

\* "Always cleanup": page.close() and browser_context.close() in one try
Cleanup(h, f) ==
    IF h.esc # "" THEN h
    ELSE IF "page.close" \in f THEN Say(h, "error:page.close")
    ELSE IF "context.close" \in f THEN Say(ClosePage(h), "error:context.close")
    ELSE Say(CloseContext(ClosePage(h)), "debug:closed")

after_scenario(f) ==
    Cleanup(AttachPageInfo(TakeScreenshot(
        SaveTrace(HookRun(sc_log, "", Ctx), f), f), f), f)

BeforeScenario ==
    /\ runner = "behave" /\ sc_pc \in {"start", "done"}
    /\ scenarios < MaxScenarios
    /\ scenarios' = scenarios + 1
    /\ contexts' = Append(contexts, NewContext(TRACE))
    /\ status' = "none" /\ sc_log' = <<>> /\ escaped' = <<>>
    /\ sc_pc' = "steps"
    /\ UNCHANGED <<runner, TRACE, SCREENSHOT_ON_FAILURE, ALLURE_AVAILABLE,
                   rep_call, pytest_html>>
    /\ UNCHANGED nonScenarioVars

\* the steps of the scenario run; behave sets scenario.status
RunSteps ==
    /\ runner = "behave" /\ sc_pc = "steps"
    /\ status' \in {"passed", "failed"}
    /\ sc_pc' = "after"
    /\ UNCHANGED <<runner, TRACE, SCREENSHOT_ON_FAILURE, ALLURE_AVAILABLE,
                   rep_call, pytest_html, scenarios, contexts, sc_log,
                   escaped>>
    /\ UNCHANGED nonScenarioVars

AfterScenario ==
    /\ runner = "behave" /\ sc_pc = "after"
    /\ \E f \in SUBSET BehaveFaults :
        LET h == after_scenario(f) IN
        /\ sc_log' = h.log
        /\ contexts' = [contexts EXCEPT ![Len(contexts)] = h.ctx]
        /\ escaped' = Escaped("after_scenario", h)
    /\ sc_pc' = "done"
    /\ UNCHANGED <<runner, TRACE, SCREENSHOT_ON_FAILURE, ALLURE_AVAILABLE,
                   rep_call, pytest_html, scenarios, status>>
    /\ UNCHANGED nonScenarioVars

(* ---- pytest: the page fixture and pytest_runtest_makereport ---- *)
\* The hook runs after each phase of a test; when is that phase.
When == CASE sc_pc = "report_setup" -> "setup"
          [] sc_pc = "report_call" -> "call"
          [] sc_pc = "report_teardown" -> "teardown"
          [] OTHER -> "none"
AfterReport == CASE sc_pc = "report_setup" -> "call"
                 [] sc_pc = "report_call" -> "teardown"
                 [] OTHER -> "done"

\* nothing here is inside a try
pytest_runtest_makereport(when, f) ==
    LET h == HookRun(sc_log, "", Ctx) IN
    IF when = "call" /\ Failed THEN
        IF "makedirs:screenshot" \in f THEN Escape(h, "makedirs:screenshot")
        ELSE IF "page.screenshot" \in f THEN Escape(h, "page.screenshot")
        ELSE IF pytest_html THEN Say(Say(h, "screenshot"), "extra:png")
        ELSE Say(h, "screenshot")
    ELSE h

\* the page fixture after its yield; nothing here is inside a try
TeardownTrace(h, f) ==
    IF TRACE /\ rep_call /\ Failed THEN
        IF "makedirs:trace" \in f THEN Escape(h, "makedirs:trace")
        ELSE IF "tracing.stop" \in f THEN Escape(h, "tracing.stop")
        ELSE Say(StopTracing(h), "trace")
    ELSE IF TRACE THEN
        IF "tracing.stop" \in f THEN Escape(h, "tracing.stop")
        ELSE StopTracing(h)
    ELSE h

TeardownClose(h, f) ==
    IF h.esc # "" THEN h
    ELSE IF "context.close" \in f THEN Escape(h, "context.close")
    ELSE CloseContext(h)

page_teardown(f) == TeardownClose(TeardownTrace(HookRun(sc_log, "", Ctx), f), f)

\* an exception that left the makereport hook ends the session
SessionAborted ==
    \E i \in 1..Len(escaped) : escaped[i].hook = "pytest_runtest_makereport"

\* the page fixture up to its yield
PageSetup ==
    /\ runner = "pytest" /\ sc_pc \in {"start", "done"}
    /\ scenarios < MaxScenarios /\ ~SessionAborted
    /\ scenarios' = scenarios + 1
    /\ contexts' = Append(contexts, NewContext(TRACE))
    /\ status' = "none" /\ sc_log' = <<>> /\ escaped' = <<>>
    /\ sc_pc' = "report_setup"
    /\ UNCHANGED <<runner, TRACE, SCREENSHOT_ON_FAILURE, ALLURE_AVAILABLE,
                   rep_call, pytest_html>>
    /\ UNCHANGED nonScenarioVars

\* the test function runs with the page
RunTest ==
    /\ runner = "pytest" /\ sc_pc = "call"
    /\ status' \in {"passed", "failed"}
    /\ sc_pc' = "report_call"
    /\ UNCHANGED <<runner, TRACE, SCREENSHOT_ON_FAILURE, ALLURE_AVAILABLE,
                   rep_call, pytest_html, scenarios, contexts, sc_log,
                   escaped>>
    /\ UNCHANGED nonScenarioVars

MakeReport ==
    /\ runner = "pytest"
    /\ sc_pc \in {"report_setup", "report_call", "report_teardown"}
    /\ \E f \in SUBSET ReportFaults :
        LET h == pytest_runtest_makereport(When, f) IN
        /\ sc_log' = h.log
        /\ escaped' = Escaped("pytest_runtest_makereport", h)
    /\ sc_pc' = AfterReport
    /\ UNCHANGED <<runner, TRACE, SCREENSHOT_ON_FAILURE, ALLURE_AVAILABLE,
                   rep_call, pytest_html, scenarios, contexts, status>>
    /\ UNCHANGED nonScenarioVars

PageTeardown ==
    /\ runner = "pytest" /\ sc_pc = "teardown"
    /\ \E f \in SUBSET TeardownFaults :
        LET h == page_teardown(f) IN
        /\ sc_log' = h.log
        /\ contexts' = [contexts EXCEPT ![Len(contexts)] = h.ctx]
        /\ escaped' = Escaped("page", h)
    /\ sc_pc' = "report_teardown"
    /\ UNCHANGED <<runner, TRACE, SCREENSHOT_ON_FAILURE, ALLURE_AVAILABLE,
                   rep_call, pytest_html, scenarios, status>>
    /\ UNCHANGED nonScenarioVars

\* the teardown of the current scenario has finished, by returning or raising
TeardownOver ==
    \/ runner = "behave" /\ sc_pc = "done"
    \/ runner = "pytest" /\ sc_pc \in {"report_teardown", "done"}

\* C17: for every scenario outcome and every failure of trace saving,
\* screenshot capture, report attachment or page closing, the scenario's page
\* and browser context are both closed by the time its teardown has finished.
C17_TeardownClosesPageAndContext ==
    TeardownOver => (~Ctx.open /\ ~Ctx.page_open)

\* C18: in both runners no error raised while taking the screenshot, saving
\* the trace or attaching to the report leaves a hook: the hooks of a
\* scenario complete without raising such an error.
C18_ArtifactErrorsSuppressed ==
    \A i \in 1..Len(escaped) : escaped[i].call \notin ArtifactCalls

OpenContexts == {k \in 1..Len(contexts) : contexts[k].open}

\* C23: across the scenarios the behave hooks run, at most one browser
\* context is open at any moment: the previous scenario's context is closed
\* before before_scenario creates the next one, also when the previous
\* teardown hit an error.
C23_AtMostOneContextOpen ==
    runner = "behave" => Cardinality(OpenContexts) <= 1

(***************************************************************************)
(* Overview page checks (pages/it_assert_inventory/overview_page.py) and   *)
(* the total-devices step (features/steps/it_asset_inventory)              *)
(***************************************************************************)
\* Texts are sequences of characters: a digit, a letter and a blank.
Digits == {"7"}
Chars == {"7", "k", " "}
Texts == SeqsUpTo(Chars, MaxTextLen)

\* str.strip()
RECURSIVE LStrip(_)
LStrip(t) == IF t # <<>> /\ Head(t) = " " THEN LStrip(Tail(t)) ELSE t
RECURSIVE RStrip(_)
RStrip(t) ==
    IF t # <<>> /\ t[Len(t)] = " " THEN RStrip(SubSeq(t, 1, Len(t) - 1)) ELSE t
Strip(t) == RStrip(LStrip(t))

\* re.search(r"\d", t) finds a match
HasDigit(t) == \E i \in 1..Len(t) : t[i] \in Digits

\* A metric value element: text_content() returns its text, returns None, or
\* raises.
TextElement(t) == [kind |-> "text", text |-> t]
NoneElement == [kind |-> "None", text |-> <<>>]
ErrorElement == [kind |-> "error", text |-> <<>>]
MetricElements == {TextElement(t) : t \in Texts} \cup {NoneElement, ErrorElement}

\* (bool, message) as verify_all_metric_values_numeric returns it; text is
\* the value text the message quotes
Verdict(ok, msg, t) == [kind |-> "returned", ok |-> ok, message |-> msg, text |-> t]
NoVerdict == [kind |-> "pending", ok |-> FALSE, message |-> "", text |-> <<>>]

\* A plausible slip: any non-empty text counts as numeric.
IsValueNonEmpty(value_text) == value_text # <<>>

is_value_numeric_and_formatted(value_text) == HasDigit(value_text)

\* the for loop over metric_values
RECURSIVE CheckMetrics(_)
CheckMetrics(ms) ==
    IF ms = <<>> THEN Verdict(TRUE, "all_numeric", <<>>)
    ELSE IF Head(ms).kind = "error"
        THEN Verdict(FALSE, "error:text_content", <<>>)
    ELSE IF Head(ms).kind = "None"
        THEN Verdict(FALSE, "error:AttributeError", <<>>)
    ELSE IF ~is_value_numeric_and_formatted(Strip(Head(ms).text))
        THEN Verdict(FALSE, "not_numeric", Strip(Head(ms).text))
    ELSE CheckMetrics(Tail(ms))

\* get_all_metric_values swallows what the wait raises; locator(...).all()
\* returns the elements or raises
verify_all_metric_values_numeric(listed, ms) ==
    IF ~listed THEN Verdict(FALSE, "error:all", <<>>)
    ELSE IF Len(ms) = 0 THEN Verdict(FALSE, "no_metrics", <<>>)
    ELSE CheckMetrics(ms)

\* What overview_page.count_total_devices_count_displayed() gives the step:
\* OverviewPage defines no method of that name, so the attribute lookup
\* raises AttributeError; a method of that name would return the count shown.
UiCount(n) == [kind |-> "count", n |-> n]
UiAttributeError == [kind |-> "AttributeError", n |-> 0]
UiOutcomes == {UiAttributeError} \cup {UiCount(n) : n \in 0..MaxCount}

\* What get_db_helper().fetch_one(COUNT_TOTAL_DEVICES) gives the step: the
\* constructor's ValueError, a psycopg2.Error, None, or the first row (n,).
StepDbOutcomes ==
    {RaisedValue(e) : e \in DriverErrors \cup {"ValueError"}}
        \cup {NoneValue} \cup {TupleValue(n) : n \in 0..MaxCount}

StepPassed == [kind |-> "passed", error |-> ""]
StepFailed(e) == [kind |-> "failed", error |-> e]
NoStep == [kind |-> "pending", error |-> ""]

\* the except Exception branch of the step
DbSkipped(ui) ==
    IF ui.n > 0 THEN StepPassed ELSE StepFailed("AssertionError:positive")

step_verify_total_devices_count_matches_db(ui, db) ==
    IF ui.kind = "AttributeError" THEN StepFailed("AttributeError")
    ELSE IF ~(ui.n > 0) THEN StepFailed("AssertionError:not_displayed")
    ELSE IF db.kind = "raised" THEN DbSkipped(ui)
    ELSE LET db_count == IF db.kind = "tuple" THEN db.row ELSE 0 IN
         IF ui.n = db_count THEN StepPassed
         \* the mismatch's AssertionError is raised inside the try
         ELSE DbSkipped(ui)

(* ---- is_overview_page_displayed and the step "I should see the Overview page" ---- *)
\* the methods BasePage defines and the ones OverviewPage adds that the page
\* check may call on self
BasePageMethods ==
    {"wait_for_page_load", "navigate", "click_and_wait", "fill_input",
     "get_title", "get_url", "wait_for_selector", "is_visible", "get_text"}
OverviewPageMethods ==
    BasePageMethods \cup {"is_overview_page_displayed", "verify_page_loaded",
                          "verify_all_metric_values_numeric"}
\* self.<name>: found, or AttributeError
HasMethod(name) == name \in OverviewPageMethods

\* The page a check looks at: whether it finished loading, and for each text
\* how many elements get_by_text finds and whether the first is visible.
PageViews ==
    [loaded : BOOLEAN,
     display_overview : 0..MaxCount, display_overview_visible : BOOLEAN,
     overview : 0..MaxCount, overview_visible : BOOLEAN]
NoView ==
    [loaded |-> FALSE, display_overview |-> 0, display_overview_visible |-> FALSE,
     overview |-> 0, overview_visible |-> FALSE]

\* the body of the try after the wait
TextDisplayed(pg) ==
    IF pg.display_overview > 0 THEN pg.display_overview_visible
    ELSE IF pg.overview > 0 THEN pg.overview_visible
    ELSE FALSE

\* self.wait_for_full_page_load() raises AttributeError when no such method
\* exists, and a timeout when the page has not loaded; except Exception
\* turns either into False
is_overview_page_displayed(pg) ==
    IF ~HasMethod("wait_for_full_page_load") THEN FALSE
    ELSE IF ~pg.loaded THEN FALSE
    ELSE TextDisplayed(pg)

step_verify_overview_page(pg) ==
    IF is_overview_page_displayed(pg) THEN StepPassed
    ELSE StepFailed("AssertionError:not_displayed")

\* one run of the step "I should see the Overview page"
StepVerifyOverviewPage ==
    /\ ov_op = "ready"
    /\ ov_page' \in PageViews
    /\ displayed' = is_overview_page_displayed(ov_page')
    /\ step_result' = step_verify_overview_page(ov_page')
    /\ ov_op' = "step_verify_overview_page"
    /\ UNCHANGED <<metrics, wait_ok, all_ok, ov_verdict, ui_count, db_outcome>>
    /\ UNCHANGED nonOverviewVars

\* C28: is_overview_page_displayed returns True whenever the page has
\* finished loading and the text "Display Overview" (or, when that is absent,
\* the text "Overview") is present and visible, so the step "I should see the
\* Overview page" passes on a correctly displayed Overview page.
C28_DisplayedPagePasses ==
    (ov_op = "step_verify_overview_page" /\ ov_page.loaded
        /\ (\/ ov_page.display_overview > 0 /\ ov_page.display_overview_visible
            \/ /\ ov_page.display_overview = 0
               /\ ov_page.overview > 0 /\ ov_page.overview_visible)) =>
        (displayed /\ step_result = StepPassed)

OverviewIdle ==
    /\ ov_op = "none" /\ metrics = <<>> /\ wait_ok = TRUE /\ all_ok = TRUE
    /\ ov_verdict = NoVerdict /\ ui_count = UiCount(0) /\ db_outcome = NoValue
    /\ step_result = NoStep /\ ov_page = NoView /\ displayed = FALSE

\* the Overview page is open; no check has run
OverviewInit ==
    /\ ov_op = "ready" /\ metrics = <<>> /\ wait_ok = TRUE /\ all_ok = TRUE
    /\ ov_verdict = NoVerdict /\ ui_count = UiCount(0) /\ db_outcome = NoValue
    /\ step_result = NoStep /\ ov_page = NoView /\ displayed = FALSE

\* one call of verify_all_metric_values_numeric on a page showing metrics;
\* a run makes one check
VerifyAllMetricValuesNumeric ==
    /\ ov_op = "ready"
    /\ metrics' \in SeqsUpTo(MetricElements, MaxMetrics)
    /\ wait_ok' \in BOOLEAN
    /\ all_ok' \in BOOLEAN
    /\ ov_verdict' = verify_all_metric_values_numeric(all_ok', metrics')
    /\ ov_op' = "verify_all_metric_values_numeric"
    /\ UNCHANGED <<ui_count, db_outcome, step_result, ov_page, displayed>>
    /\ UNCHANGED nonOverviewVars

\* one run of the step "I should see the total devices count displayed the
\* same as db"
StepVerifyTotalDevicesCount ==
    /\ ov_op = "ready"
    /\ ui_count' \in UiOutcomes
    /\ db_outcome' \in StepDbOutcomes
    /\ step_result' =
        step_verify_total_devices_count_matches_db(ui_count', db_outcome')
    /\ ov_op' = "step_verify_total_devices_count_matches_db"
    /\ UNCHANGED <<metrics, wait_ok, all_ok, ov_verdict, ov_page, displayed>>
    /\ UNCHANGED nonOverviewVars

StepRan == ov_op = "step_verify_total_devices_count_matches_db"
DbSucceeded == db_outcome.kind \in {"None", "tuple"}
DbCount == IF db_outcome.kind = "tuple" THEN db_outcome.row ELSE 0

VerifyRan == ov_op = "verify_all_metric_values_numeric"
AllReadable == \A i \in 1..Len(metrics) : metrics[i].kind = "text"

\* C20: verify_all_metric_values_numeric returns success if and only if at
\* least one metric value element exists and every value text contains a
\* digit; with no element, with a digit-free text or on an error while
\* reading it returns False with a message, and it never raises.
C20_NumericIffAllHaveDigit ==
    VerifyRan =>
        /\ ov_verdict.kind = "returned"
        /\ ov_verdict.ok <=>
            /\ all_ok /\ Len(metrics) >= 1 /\ AllReadable
            /\ \A i \in 1..Len(metrics) : HasDigit(metrics[i].text)
        /\ ov_verdict.ok => ov_verdict.message = "all_numeric"
        /\ ~ov_verdict.ok => ov_verdict.message # "all_numeric"
        /\ (all_ok /\ metrics = <<>>) => ov_verdict.message = "no_metrics"

C20_Witness ==
    /\ VerifyRan /\ all_ok /\ Len(metrics) = 2
    /\ metrics[1] = TextElement(<<" ", "7">>)
    /\ metrics[2] = TextElement(<<"k">>)
    /\ ov_verdict = Verdict(FALSE, "not_numeric", <<"k">>)

(***************************************************************************)
(* Specifications                                                          *)
(***************************************************************************)
InitLocator ==
    LocatorInit /\ WaitIdle /\ RetryIdle /\ DbIdle /\ ScenarioIdle
    /\ OverviewIdle /\ ConfigIdle /\ CredentialsIdle /\ LoginIdle
NextLocator == FindPrimary \/ FindFallback
SpecLocator == InitLocator /\ [][NextLocator]_vars

InitWait ==
    LocatorIdle /\ WaitInit /\ RetryIdle /\ DbIdle /\ ScenarioIdle
    /\ OverviewIdle /\ ConfigIdle /\ CredentialsIdle /\ LoginIdle
NextWait == WaitTest \/ WaitCondition \/ WaitSleep
SpecWait == InitWait /\ [][NextWait]_vars
\* The predicate and the sleep return, and the loop goes on.
SpecWaitFair == SpecWait /\ WF_vars(NextWait)

InitRetry ==
    LocatorIdle /\ WaitIdle /\ RetryInit /\ DbIdle /\ ScenarioIdle
    /\ OverviewIdle /\ ConfigIdle /\ CredentialsIdle /\ LoginIdle
NextRetry == RetryEnter \/ RetryAttempt \/ RetryDelay
SpecRetry == InitRetry /\ [][NextRetry]_vars

InitDb ==
    LocatorIdle /\ WaitIdle /\ RetryIdle /\ DbInit /\ ScenarioIdle
    /\ OverviewIdle /\ ConfigIdle /\ CredentialsIdle /\ LoginIdle
NextDb == DbCall \/ DbConnect \/ DbBody \/ DbCommit \/ DbRollback \/ DbClose
SpecDb == InitDb /\ [][NextDb]_vars

InitScenario ==
    LocatorIdle /\ WaitIdle /\ RetryIdle /\ DbIdle /\ ScenarioInit
    /\ OverviewIdle /\ ConfigIdle /\ CredentialsIdle /\ LoginIdle
NextScenario ==
    \/ BeforeScenario \/ RunSteps \/ AfterScenario
    \/ PageSetup \/ RunTest \/ MakeReport \/ PageTeardown
SpecScenario == InitScenario /\ [][NextScenario]_vars

InitOverview ==
    LocatorIdle /\ WaitIdle /\ RetryIdle /\ DbIdle /\ ScenarioIdle
    /\ OverviewInit /\ ConfigIdle /\ CredentialsIdle /\ LoginIdle
NextOverview ==
    \/ VerifyAllMetricValuesNumeric \/ StepVerifyTotalDevicesCount
    \/ StepVerifyOverviewPage
SpecOverview == InitOverview /\ [][NextOverview]_vars

InitConfig ==
    LocatorIdle /\ WaitIdle /\ RetryIdle /\ ScenarioIdle /\ OverviewIdle
    /\ ConfigInit /\ CredentialsIdle /\ LoginIdle
NextConfig ==
    \/ DatabaseHelperInit
    \/ DbCall \/ DbConnect \/ DbBody \/ DbCommit \/ DbRollback \/ DbClose
SpecConfig == InitConfig /\ [][NextConfig]_vars

InitCredentials ==
    LocatorIdle /\ WaitIdle /\ RetryIdle /\ DbIdle /\ ScenarioIdle
    /\ OverviewIdle /\ ConfigIdle /\ CredentialsInit /\ LoginIdle
NextCredentials ==
    \/ GetValidCredentials \/ GetInvalidUsernameCredentials
    \/ GetInvalidPasswordCredentials \/ MutateCredentials
SpecCredentials == InitCredentials /\ [][NextCredentials]_vars

InitLogin ==
    LocatorIdle /\ WaitIdle /\ RetryIdle /\ DbIdle /\ ScenarioIdle
    /\ OverviewIdle /\ ConfigIdle /\ CredentialsIdle /\ LoginInit
NextLogin ==
    \/ EnterField \/ StepWaitForManualMfa \/ MfaSleep
    \/ CompleteFullLogin \/ FlowStep
SpecLogin == InitLogin /\ [][NextLogin]_vars

====
